---- MODULE Spec2Model ----
(***************************************************************************)
(* Model of src/src/util/auth.js: the auth context (useAuthProvider), the  *)
(* merge of the profile row into the session user (useMergeExtraData),     *)
(* the formatter (useFormatUser) and the gate (requireAuth).               *)
(*                                                                         *)
(* JavaScript values are tagged records: `null` is Null, `false` is False, *)
(* an auth user object is a record with tag "user".  A promise is          *)
(* described by its outcome (Pending, Resolved, Rejected(e)).              *)
(* One action is one handler run to completion followed by the React       *)
(* commit it causes: the provider re-renders, the context consumers        *)
(* re-render and their effects run.                                        *)
(***************************************************************************)
EXTENDS Integers, FiniteSets, Sequences, TLC

\* ------------------------------------------------------------------ bounds
\* Number of provider/profile-store requests that may be awaiting a response.
MaxInFlight == 1

\* ------------------------------------------------------- program constants
\* auth.js:16
MERGE_DB_USER == TRUE

\* ------------------------------------------------------------------ values
Null == [tag |-> "null"]
False == [tag |-> "false"]
Undefined == [tag |-> "undefined"]

Ids == {"A", "B"}
Emails == {"a@x", "b@x"}

\* app_metadata.provider is fixed when the identity is created
ProviderOf(id) == IF id = "A" THEN "email" ELSE "google"

\* The auth user object of the identity provider.  email_confirmed_at is
\* TRUE when the timestamp is present and FALSE when it is absent.
AuthUser(id, email, confirmed) ==
  [tag |-> "user", id |-> id, email |-> email,
   email_confirmed_at |-> confirmed, provider |-> ProviderOf(id)]

\* Users a provider response may carry (confirmed or not)
ResponseUsers == {AuthUser(i, e, c) : i \in Ids, e \in Emails, c \in BOOLEAN}

\* A session is only issued for a confirmed identity
SessionUsers == {AuthUser(i, e, TRUE) : i \in Ids, e \in Emails}

NoSession == [tag |-> "null"]
Sessions == {[tag |-> "session", user |-> u] : u \in SessionUsers}

\* Provider responses {user, error}
NoError == "none"
ProviderError == "ProviderError"
Responses ==
  {[user |-> u, error |-> NoError] : u \in ResponseUsers}
    \cup {[user |-> Null, error |-> ProviderError]}

\* Responses of the calls whose user is not read (signOut, update, reset)
PlainResponses ==
  {[user |-> Null, error |-> NoError], [user |-> Null, error |-> ProviderError]}

\* Promise outcomes
Pending == [state |-> "pending", error |-> NoError]
Resolved == [state |-> "resolved", error |-> NoError]
Rejected(e) == [state |-> "rejected", error |-> e]
NoOutcome == [state |-> "none", error |-> NoError]

\* JavaScript truthiness of a user value: `null` and `false` are falsy
IsUser(u) == u.tag = "user"
IsThrow(u) == u.tag = "throw"

\* ------------------------------------------------------------ profile store
\* Rows of public.users (schema.sql:3-12) as the profile query returns them;
\* NullRow is a successful query that found no row.
NullRow == [tag |-> "null"]
ProfileNames == {"Ada"}

\* Rows of public.customers (schema.sql:49-57) joined to the user's row: no
\* billing record, or one whose stripe_subscription_status is a status of
\* the payment provider or NULL ("null")
SubscriptionStatuses == {"active", "trialing", "canceled", "past_due", "null"}
CustomerLists ==
  {<<>>} \cup {<<[stripe_subscription_status |-> s]>> : s \in SubscriptionStatuses}

Rows(id) ==
  {[tag |-> "row", id |-> id, name |-> n, customers |-> c] :
     n \in ProfileNames, c \in CustomerLists}

StoreError == "StoreUnreachable"
\* What the store may answer to a fetch of key id
FetchResults(id) ==
  {[status |-> "success", data |-> d, error |-> NoError] : d \in Rows(id) \cup {NullRow}}
    \cup {[status |-> "error", data |-> Undefined, error |-> StoreError]}

NoKey == "false"
UndefinedKey == "undefined"
IdleQuery == [key |-> NoKey, status |-> "idle", data |-> Undefined, error |-> NoError]

\* auth.js:209  the key handed to useUser: `enabled && user && user.id`
\* (fault variant: the key does not follow the user's id)
QueryKeyStale(u, enabled) == IF enabled /\ IsUser(u) THEN "A" ELSE NoKey
QueryKey(u, enabled) == IF enabled /\ IsUser(u) THEN u.id ELSE NoKey

\* useUser(key) on a render: the observer follows the key.  A new key starts
\* in "loading" with no data; a disabled key is "idle".
useUser(q, key) ==
  IF key = q.key THEN q
  ELSE IF key = NoKey THEN IdleQuery
  ELSE [key |-> key, status |-> "loading", data |-> Undefined, error |-> NoError]

\* -------------------------------------------------------- pure render code
\* auth.js:223  { ...user, ...data }: the row's fields win on collision
MergeFields(u, data) ==
  [k \in (DOMAIN u) \cup ((DOMAIN data) \ {"tag"}) |->
     IF k \in (DOMAIN data) \ {"tag"} THEN data[k] ELSE u[k]]

Thrown(reason) == [tag |-> "throw", message |-> reason]

\* auth.js:207-238
\* (fault variant: the session user is returned while the query is pending)
useMergeExtraDataNoWait(u, enabled, q) ==
  IF ~enabled \/ ~IsUser(u) THEN u
  ELSE CASE q.status = "success" ->
              IF q.data = NullRow THEN Null ELSE MergeFields(u, q.data)
         [] q.status = "error" -> Thrown(q.error)
         [] OTHER -> u

\* (fault variant: a missing row yields the bare session user)
useMergeExtraDataEmpty(u, enabled, q) ==
  IF ~enabled \/ ~IsUser(u) THEN u
  ELSE CASE q.status = "success" ->
              IF q.data = NullRow THEN u ELSE MergeFields(u, q.data)
         [] q.status = "error" -> Thrown(q.error)
         [] OTHER -> Null

\* (fault variant: a failed query is reported as still loading)
useMergeExtraDataSwallow(u, enabled, q) ==
  IF ~enabled \/ ~IsUser(u) THEN u
  ELSE CASE q.status = "success" ->
              IF q.data = NullRow THEN Null ELSE MergeFields(u, q.data)
         [] OTHER -> Null

useMergeExtraData(u, enabled, q) ==
  IF ~enabled \/ ~IsUser(u) THEN u
  ELSE CASE q.status = "success" ->
              IF q.data = NullRow THEN Null ELSE MergeFields(u, q.data)
         [] q.status = "error" -> Thrown(q.error)
         [] OTHER -> Null

\* auth.js:184  (user.customers && user.customers[0]) || {}
EmptyObject == [k \in {} |-> "undefined"]
CustomerOf(u) ==
  IF "customers" \in DOMAIN u /\ Len(u.customers) > 0 THEN u.customers[1] ELSE EmptyObject

\* auth.js:194  camelcaseKeys(customer)
CamelKey(k) == IF k = "stripe_subscription_status" THEN "stripeSubscriptionStatus" ELSE k
SnakeKey(k) == IF k = "stripeSubscriptionStatus" THEN "stripe_subscription_status" ELSE k
CamelKeys(customer) == {CamelKey(k) : k \in DOMAIN customer}

\* auth.js:200-202  ["active", "trialing"].includes(customer.stripe_subscription_status)
\* (fault variant: a trial does not count as active)
PlanIsActiveStrict(customer) ==
  /\ "stripe_subscription_status" \in DOMAIN customer
  /\ customer.stripe_subscription_status = "active"
PlanIsActive(customer) ==
  /\ "stripe_subscription_status" \in DOMAIN customer
  /\ customer.stripe_subscription_status \in {"active", "trialing"}

\* auth.js:170-205  the object literal: later keys win.  (The rows carry no
\* stripe_price_id, so the planId entry of auth.js:196-198 adds nothing.)
\* (fault variant: the provider name is not translated)
useFormatUserRawProvider(u) ==
  IF ~IsUser(u) THEN u
  ELSE [k \in (DOMAIN u) \cup {"uid", "providers", "planIsActive"}
                \cup CamelKeys(CustomerOf(u)) |->
          CASE k = "planIsActive" -> PlanIsActive(CustomerOf(u))
            [] k \in CamelKeys(CustomerOf(u)) -> CustomerOf(u)[SnakeKey(k)]
            [] k = "providers" -> <<u.provider>>
            [] k = "uid" -> u.id
            [] OTHER -> u[k]]
useFormatUser(u) ==
  IF ~IsUser(u) THEN u
  ELSE LET provider == IF u.provider = "email" THEN "password" ELSE u.provider
       IN  [k \in (DOMAIN u) \cup {"uid", "providers", "planIsActive"}
                    \cup CamelKeys(CustomerOf(u)) |->
              CASE k = "planIsActive" -> PlanIsActive(CustomerOf(u))
                [] k \in CamelKeys(CustomerOf(u)) -> CustomerOf(u)[SnakeKey(k)]
                [] k = "providers" -> <<provider>>
                [] k = "uid" -> u.id
                [] OTHER -> u[k]]

\* auth.js:253-260  what the gate renders for auth.user
\* (fault variant: only `null` shows the placeholder)
requireAuthViewNullOnly(u) == IF u = Null THEN "placeholder" ELSE "component"
requireAuthView(u) == IF ~IsUser(u) THEN "placeholder" ELSE "component"

\* auth.js:246-251  whether the gate's effect calls history.replace
requireAuthEffect(u) == u = False

\* ------------------------------------------------------- promise chains
\* auth.js:266-269
handleError(response) ==
  IF response.error # NoError THEN Rejected(response.error) ELSE Resolved

\* auth.js:44-58  result of handleAuth: the promise outcome and the value
\* of `user` afterwards (set is TRUE when setUser was called)
\* (fault variant: setUser before the confirmation test)
handleAuthSetFirst(u, response) ==
  IF ~response.user.email_confirmed_at
    THEN [out |-> Rejected("UnconfirmedEmail"), set |-> TRUE, user |-> response.user]
    ELSE [out |-> Resolved, set |-> TRUE, user |-> response.user]
handleAuth(u, response) ==
  IF ~response.user.email_confirmed_at
    THEN [out |-> Rejected("UnconfirmedEmail"), set |-> FALSE, user |-> u]
    ELSE [out |-> Resolved, set |-> TRUE, user |-> response.user]

\* auth.js:60-72  .then(handleError).then(handleAuth)
AuthChain(u, response) ==
  IF handleError(response).state = "rejected"
    THEN [out |-> handleError(response), set |-> FALSE, user |-> u]
    ELSE handleAuth(u, response)

\* auth.js:74-91  .then(handleError).then(() => new Promise(() => null))
\* (fault variant: the last .then is missing, the chain resolves)
signinWithProviderChainResolves(response) ==
  IF handleError(response).state = "rejected" THEN handleError(response) ELSE Resolved
signinWithProviderChain(response) ==
  IF handleError(response).state = "rejected" THEN handleError(response) ELSE Pending

\* auth.js:145-151  the value the subscription callback hands to setUser
\* (fault variant: an authenticated user is kept when a session arrives)
onAuthStateChangeKeep(u, session) ==
  IF session # NoSession
    THEN (IF IsUser(u) THEN u ELSE session.user)
    ELSE False
onAuthStateChangeHandler(u, session) ==
  IF session # NoSession THEN session.user ELSE False

RespTag(response) ==
  IF response.error # NoError THEN "error"
  ELSE IF IsUser(response.user) /\ ~response.user.email_confirmed_at THEN "unconfirmed"
  ELSE "ok"


\* auth.js:111-127  the synchronous part of updateProfile up to its first
\* await: the outcome when it settles at once, else the request it issues.
\* `user.email` and `user.id` on `null` throw a TypeError; on `false` they
\* are undefined.
NoCall == [op |-> "none", key |-> NoKey]
EmailCall == [op |-> "updateEmail", key |-> NoKey]
UserCall(key) == [op |-> "updateUser", key |-> key]
EmailOf(u) == IF IsUser(u) THEN u.email ELSE "undefined"
IdOf(u) == IF IsUser(u) THEN u.id ELSE UndefinedKey

\* (fault variant: the email is sent without comparing it with user.email)
updateProfileAlways(u, data) ==
  IF data.email # "" /\ u = Null THEN [out |-> Rejected("TypeError"), issue |-> NoCall]
  ELSE IF data.email # "" THEN [out |-> Pending, issue |-> EmailCall]
  ELSE IF data.other /\ u = Null THEN [out |-> Rejected("TypeError"), issue |-> NoCall]
  ELSE IF data.other THEN [out |-> Pending, issue |-> UserCall(IdOf(u))]
  ELSE [out |-> Resolved, issue |-> NoCall]
updateProfile(u, data) ==
  IF data.email # "" /\ u = Null THEN [out |-> Rejected("TypeError"), issue |-> NoCall]
  ELSE IF data.email # "" /\ data.email # EmailOf(u)
    THEN [out |-> Pending, issue |-> EmailCall]
  ELSE IF data.other /\ u = Null THEN [out |-> Rejected("TypeError"), issue |-> NoCall]
  ELSE IF data.other THEN [out |-> Pending, issue |-> UserCall(IdOf(u))]
  ELSE [out |-> Resolved, issue |-> NoCall]

\* auth.js:117-120  after the provider answered the email update
\* (fault variant: the response is not passed through handleError)
updateEmailChainNoCheck(response) == Rejected("ConfirmationPending")
updateEmailChain(response) ==
  IF handleError(response).state = "rejected" THEN handleError(response)
  ELSE Rejected("ConfirmationPending")

ProfileData == [email : Emails \cup {""}, other : BOOLEAN]

\* ------------------------------------------------------------------- state
VARIABLES
  user,        \* auth.js:33  the `user` state: Null, False or an auth user
  query,       \* the result useUser returns for the current key
  fetches,     \* keys of the profile fetches awaiting the store's answer
  inflight,    \* provider / store requests awaiting a response
  mergedUser,  \* auth.js:38  output of useMergeExtraData at the last render
  finalUser,   \* auth.js:41  auth.user at the last render
  gate,        \* what requireAuth rendered: "unmounted", "placeholder", "component"
  phase,       \* "created" (rendered, effect not run), "mounted", "unmounted", "crashed"
  subs,        \* number of active onAuthStateChange subscriptions
  lastStep     \* the handler that ran last, its input and its outcome

vars == <<user, query, fetches, inflight, mergedUser, finalUser, gate, phase, subs, lastStep>>

Step(kind, resp, email, session, outcome, redirected) ==
  [kind |-> kind, resp |-> resp, email |-> email, session |-> session,
   outcome |-> outcome, redirected |-> redirected]

Alive == phase \in {"created", "mounted"}

Init ==
  /\ user = Null
  /\ query = IdleQuery
  /\ fetches = {}
  /\ inflight = {}
  /\ mergedUser = Null
  /\ finalUser = Null
  /\ gate = "unmounted"
  /\ phase = "created"
  /\ subs = 0
  /\ lastStep = Step("init", "none", "", NoSession, NoOutcome, FALSE)

\* auth.js:38-41  auth.user for provider state (u, q); a throw of the merge
\* propagates out of the render
FinalOf(u, q) ==
  LET m == useMergeExtraData(u, MERGE_DB_USER, q)
  IN  IF IsThrow(m) THEN m ELSE useFormatUser(m)

\* One React commit with provider state (u, q): useAuthProvider returns a
\* new `auth` object (auth.js:157-167), so every mounted gate re-renders and
\* its effect (auth.js:246-251, deps [auth]) runs again.  A throw in the
\* render unmounts the tree, which runs the effect cleanup (auth.js:154).
Commit(u, q, ph, s) ==
  LET m == useMergeExtraData(u, MERGE_DB_USER, q)
      f == FinalOf(u, q)
  IN  /\ mergedUser' = m
      /\ finalUser' = f
      /\ IF IsThrow(m)
           THEN gate' = "unmounted" /\ phase' = "crashed" /\ subs' = 0
           ELSE /\ gate' = IF gate = "unmounted" THEN "unmounted" ELSE requireAuthView(f)
                /\ phase' = ph
                /\ subs' = s

CommitRedirects(u, q) == gate # "unmounted" /\ requireAuthEffect(FinalOf(u, q))

\* setUser(v) bails out without rendering when v is the primitive already
\* in state; a dead component ignores it
SetUserRenders(v) == Alive /\ ~(v = user /\ ~IsUser(v))

NextQuery(v) == useUser(query, QueryKey(v, MERGE_DB_USER))

\* setUser(v) and the commit it causes
SetUser(v, ph, s) ==
  IF SetUserRenders(v)
    THEN /\ user' = v
         /\ query' = NextQuery(v)
         /\ fetches' = IF NextQuery(v).key # query.key /\ NextQuery(v).key # NoKey
                         THEN fetches \cup {NextQuery(v).key} ELSE fetches
         /\ Commit(v, NextQuery(v), ph, s)
    ELSE /\ phase' = (IF Alive THEN ph ELSE phase)
         /\ subs' = (IF Alive THEN s ELSE subs)
         /\ UNCHANGED <<user, query, fetches, mergedUser, finalUser, gate>>

SetUserRedirects(v) == SetUserRenders(v) /\ CommitRedirects(v, NextQuery(v))

\* ----------------------------------------------------------------- actions
\* auth.js:129-155  the mount effect: the cached session unless the URL
\* hash holds "#access_token=", then the subscription
\* (fault variant: the cached session is read whatever the URL hash holds)
MountEffectIgnoresToken(hasToken, session) ==
  /\ phase = "created"
  /\ inflight' = inflight
  /\ SetUser(onAuthStateChangeHandler(user, session), "mounted", subs + 1)
  /\ lastStep' = Step("MountEffect", IF hasToken THEN "token" ELSE "cached", "", session,
                      NoOutcome, SetUserRedirects(onAuthStateChangeHandler(user, session)))
MountEffect(hasToken, session) ==
  /\ phase = "created"
  /\ inflight' = inflight
  /\ IF hasToken
       THEN /\ phase' = "mounted" /\ subs' = subs + 1
            /\ UNCHANGED <<user, query, fetches, mergedUser, finalUser, gate>>
            /\ lastStep' = Step("MountEffect", "token", "", session, NoOutcome, FALSE)
       ELSE /\ SetUser(onAuthStateChangeHandler(user, session), "mounted", subs + 1)
            /\ lastStep' = Step("MountEffect", "cached", "", session, NoOutcome,
                                SetUserRedirects(onAuthStateChangeHandler(user, session)))

\* auth.js:145-151  the subscription callback
onAuthStateChange(session) ==
  /\ phase = "mounted" /\ subs > 0
  /\ inflight' = inflight
  /\ SetUser(onAuthStateChangeHandler(user, session), phase, subs)
  /\ lastStep' = Step("onAuthStateChange", "none", "", session, NoOutcome,
                      SetUserRedirects(onAuthStateChangeHandler(user, session)))

\* (fault variant: the cleanup does not unsubscribe)
ProviderUnmountLeaks ==
  /\ phase = "mounted"
  /\ phase' = "unmounted" /\ subs' = subs /\ gate' = "unmounted"
  /\ UNCHANGED <<user, query, fetches, inflight, mergedUser, finalUser>>
  /\ lastStep' = Step("ProviderUnmount", "none", "", NoSession, NoOutcome, FALSE)

\* auth.js:153-154  unmount of the provider (and of everything below it)
ProviderUnmount ==
  /\ phase = "mounted"
  /\ phase' = "unmounted" /\ subs' = subs - 1 /\ gate' = "unmounted"
  /\ UNCHANGED <<user, query, fetches, inflight, mergedUser, finalUser>>
  /\ lastStep' = Step("ProviderUnmount", "none", "", NoSession, NoOutcome, FALSE)

\* auth.js:23-41  the provider mounts again after a teardown: a new component
\* instance whose `user` starts at null (auth.js:33); the promises and the
\* query of the former instance no longer reach any state
ProviderMount ==
  /\ phase \in {"unmounted", "crashed"}
  /\ user' = Null /\ query' = IdleQuery /\ fetches' = {} /\ inflight' = {}
  /\ mergedUser' = Null /\ finalUser' = Null /\ gate' = "unmounted"
  /\ phase' = "created" /\ subs' = subs
  /\ lastStep' = Step("ProviderMount", "none", "", NoSession, NoOutcome, FALSE)

\* auth.js:23-26  the provider re-renders because its parent did
ProviderRender ==
  /\ phase = "mounted"
  /\ Commit(user, query, phase, subs)
  /\ UNCHANGED <<user, query, fetches, inflight>>
  /\ lastStep' = Step("ProviderRender", "none", "", NoSession, NoOutcome,
                      CommitRedirects(user, query))

\* A request to the identity provider or the profile store is sent
ProviderCall(op) == [op |-> op, key |-> NoKey]
CanIssue(c) == Cardinality(inflight) < MaxInFlight /\ c \notin inflight

Issue(c, kind) ==
  /\ phase = "mounted"
  /\ CanIssue(c)
  /\ inflight' = inflight \cup {c}
  /\ UNCHANGED <<user, query, fetches, mergedUser, finalUser, gate, phase, subs>>
  /\ lastStep' = Step(kind, "none", "", NoSession, Pending, FALSE)

\* auth.js:60-65
signupCall == Issue(ProviderCall("signup"), "signupCall")
\* auth.js:67-72
signinCall == Issue(ProviderCall("signin"), "signinCall")
\* auth.js:74-83
signinWithProviderCall == Issue(ProviderCall("signinWithProvider"), "signinWithProviderCall")
\* auth.js:93-95
signoutCall == Issue(ProviderCall("signout"), "signoutCall")
\* auth.js:97-99
sendPasswordResetEmailCall ==
  Issue(ProviderCall("sendPasswordResetEmail"), "sendPasswordResetEmailCall")
\* auth.js:105-107
updatePasswordCall == Issue(ProviderCall("updatePassword"), "updatePasswordCall")

\* The provider answered signUp / signIn: .then(handleError).then(handleAuth)
AuthDone(op, kind, response) ==
  /\ ProviderCall(op) \in inflight
  /\ inflight' = inflight \ {ProviderCall(op)}
  /\ IF AuthChain(user, response).set
       THEN /\ SetUser(AuthChain(user, response).user, phase, subs)
            /\ lastStep' = Step(kind, RespTag(response), "", NoSession,
                                AuthChain(user, response).out,
                                SetUserRedirects(AuthChain(user, response).user))
       ELSE /\ UNCHANGED <<user, query, fetches, mergedUser, finalUser, gate, phase, subs>>
            /\ lastStep' = Step(kind, RespTag(response), "", NoSession,
                                AuthChain(user, response).out, FALSE)

\* auth.js:60-65
signupDone(response) == AuthDone("signup", "signupDone", response)
\* auth.js:67-72
signinDone(response) == AuthDone("signin", "signinDone", response)

\* The provider answered a call whose chain never touches `user`
PlainDone(op, kind, response, outcome) ==
  /\ ProviderCall(op) \in inflight
  /\ inflight' = inflight \ {ProviderCall(op)}
  /\ UNCHANGED <<user, query, fetches, mergedUser, finalUser, gate, phase, subs>>
  /\ lastStep' = Step(kind, RespTag(response), "", NoSession, outcome, FALSE)

\* auth.js:83-89
signinWithProviderDone(response) ==
  PlainDone("signinWithProvider", "signinWithProviderDone", response,
            signinWithProviderChain(response))

\* auth.js:93-95
\* (fault variant: signout also calls setUser(false))
signoutDoneSetsUser(response) ==
  /\ ProviderCall("signout") \in inflight
  /\ inflight' = inflight \ {ProviderCall("signout")}
  /\ SetUser(False, phase, subs)
  /\ lastStep' = Step("signoutDone", RespTag(response), "", NoSession,
                      handleError(response), SetUserRedirects(False))
signoutDone(response) ==
  PlainDone("signout", "signoutDone", response, handleError(response))

\* auth.js:97-99
sendPasswordResetEmailDone(response) ==
  PlainDone("sendPasswordResetEmail", "sendPasswordResetEmailDone", response,
            handleError(response))

\* auth.js:105-107
updatePasswordDone(response) ==
  PlainDone("updatePassword", "updatePasswordDone", response, handleError(response))

\* auth.js:111-127  updateProfile(data) up to its first await
updateProfileCall(data) ==
  /\ phase = "mounted"
  /\ updateProfile(user, data).issue # NoCall => CanIssue(updateProfile(user, data).issue)
  /\ inflight' = IF updateProfile(user, data).issue # NoCall
                   THEN inflight \cup {updateProfile(user, data).issue}
                   ELSE inflight
  /\ UNCHANGED <<user, query, fetches, mergedUser, finalUser, gate, phase, subs>>
  /\ lastStep' = Step("updateProfileCall", IF data.other THEN "other" ELSE "none",
                      data.email, NoSession, updateProfile(user, data).out, FALSE)

\* auth.js:117-120  the provider answered the email update
updateEmailDone(response) ==
  /\ EmailCall \in inflight
  /\ inflight' = inflight \ {EmailCall}
  /\ UNCHANGED <<user, query, fetches, mergedUser, finalUser, gate, phase, subs>>
  /\ lastStep' = Step("updateEmailDone", RespTag(response), "", NoSession,
                      updateEmailChain(response), FALSE)

\* auth.js:124-126  the profile store answered updateUser(user.id, other)
updateUserDone(key, ok) ==
  /\ UserCall(key) \in inflight
  /\ inflight' = inflight \ {UserCall(key)}
  /\ UNCHANGED <<user, query, fetches, mergedUser, finalUser, gate, phase, subs>>
  /\ lastStep' = Step("updateUserDone", IF ok THEN "ok" ELSE "error", "", NoSession,
                      IF ok THEN Resolved ELSE Rejected(StoreError), FALSE)

\* The profile store answers the fetch of key id.  The observer only takes
\* the answer for the key it currently watches; an answer for a key it left
\* is dropped.
ProfileResponse(id, result) ==
  /\ id \in fetches
  /\ fetches' = fetches \ {id}
  /\ inflight' = inflight
  /\ IF Alive /\ id = query.key
       THEN /\ user' = user
            /\ query' = [key |-> id, status |-> result.status,
                         data |-> result.data, error |-> result.error]
            /\ Commit(user, query', phase, subs)
            /\ lastStep' = Step("ProfileResponse", "applied", "", NoSession, NoOutcome,
                                CommitRedirects(user, query'))
       ELSE /\ UNCHANGED <<user, query, mergedUser, finalUser, gate, phase, subs>>
            /\ lastStep' = Step("ProfileResponse", "dropped", "", NoSession, NoOutcome, FALSE)

\* The profile store pushes a change of the watched row: the query refetches
ProfileNotify ==
  /\ Alive
  /\ query.key # NoKey /\ query.status = "success" /\ query.key \notin fetches
  /\ fetches' = fetches \cup {query.key}
  /\ UNCHANGED <<user, query, inflight, mergedUser, finalUser, gate, phase, subs>>
  /\ lastStep' = Step("ProfileNotify", "none", "", NoSession, NoOutcome, FALSE)

\* auth.js:241-262  a gated page mounts: it renders and its effect runs
GateMount ==
  /\ Alive /\ gate = "unmounted"
  /\ gate' = requireAuthView(finalUser)
  /\ UNCHANGED <<user, query, fetches, inflight, mergedUser, finalUser, phase, subs>>
  /\ lastStep' = Step("GateMount", "none", "", NoSession, NoOutcome,
                      requireAuthEffect(finalUser))

\* auth.js:242-261  the gate re-renders with new props: `auth` is the same
\* object, so the effect does not run
GateRender ==
  /\ Alive /\ gate # "unmounted"
  /\ gate' = requireAuthView(finalUser)
  /\ UNCHANGED <<user, query, fetches, inflight, mergedUser, finalUser, phase, subs>>
  /\ lastStep' = Step("GateRender", "none", "", NoSession, NoOutcome, FALSE)

\* The gated page is left (the navigation took effect)
GateUnmount ==
  /\ Alive /\ gate # "unmounted"
  /\ gate' = "unmounted"
  /\ UNCHANGED <<user, query, fetches, inflight, mergedUser, finalUser, phase, subs>>
  /\ lastStep' = Step("GateUnmount", "none", "", NoSession, NoOutcome, FALSE)

Next ==
  \/ \E t \in BOOLEAN, s \in Sessions \cup {NoSession} : MountEffect(t, s)
  \/ \E s \in Sessions \cup {NoSession} : onAuthStateChange(s)
  \/ ProviderUnmount
  \/ ProviderMount
  \/ ProviderRender
  \/ signupCall
  \/ signinCall
  \/ signinWithProviderCall
  \/ signoutCall
  \/ sendPasswordResetEmailCall
  \/ updatePasswordCall
  \/ \E r \in Responses : signupDone(r)
  \/ \E r \in Responses : signinDone(r)
  \/ \E r \in PlainResponses : signinWithProviderDone(r)
  \/ \E r \in PlainResponses : signoutDone(r)
  \/ \E r \in PlainResponses : sendPasswordResetEmailDone(r)
  \/ \E r \in PlainResponses : updatePasswordDone(r)
  \/ \E d \in ProfileData : updateProfileCall(d)
  \/ \E r \in PlainResponses : updateEmailDone(r)
  \/ \E k \in Ids \cup {UndefinedKey}, ok \in BOOLEAN : updateUserDone(k, ok)
  \/ \E id \in Ids : \E r \in FetchResults(id) : ProfileResponse(id, r)
  \/ ProfileNotify
  \/ GateMount
  \/ GateRender
  \/ GateUnmount

Spec == Init /\ [][Next]_vars

TypeOK ==
  /\ user \in {Null, False} \cup SessionUsers
  /\ gate \in {"unmounted", "placeholder", "component"}
  /\ phase \in {"created", "mounted", "unmounted", "crashed"}
  /\ subs \in 0..1
  /\ fetches \subseteq Ids
  /\ Cardinality(inflight) <= MaxInFlight

\* ------------------------------------------------------------- properties
\* C1: the merged user is an authenticated user only when the session user
\* is one and the profile query succeeded with a row; a Loading session
\* gives Loading, an Anonymous session gives Anonymous, and an
\* authenticated session with an idle or loading query gives Loading.
C1_MergedOnlyWithProfile ==
  /\ IsUser(mergedUser) =>
       IsUser(user) /\ query.status = "success" /\ query.data.tag = "row"
  /\ user = Null => mergedUser = Null
  /\ user = False => mergedUser = False
  /\ (IsUser(user) /\ query.status \in {"idle", "loading"}) => mergedUser = Null

C1_Witness ==
  /\ lastStep.kind = "ProfileResponse" /\ lastStep.resp = "applied"
  /\ IsUser(user) /\ IsUser(mergedUser) /\ query.data.tag = "row"

\* C2: for every identity, an authenticated session whose profile query
\* succeeded without a row is exposed as Loading (null), neither Anonymous
\* nor a user object.
C2_AbsentProfileIsLoading ==
  (IsUser(user) /\ query.status = "success" /\ query.data = NullRow) =>
    (finalUser = Null /\ finalUser # False /\ ~IsUser(finalUser))

C2_Witness ==
  /\ lastStep.kind = "ProfileResponse" /\ lastStep.resp = "applied"
  /\ IsUser(user) /\ query.status = "success" /\ query.data = NullRow
  /\ finalUser = Null

C4_OnlyProviderEvents ==
  [][user' # user => lastStep'.kind = "onAuthStateChange"]_vars

\* C4 (amended): `user` changes only in a step of the subscription callback,
\* of the mount effect reading the cached session, or of a signup/signin
\* completion that resolved; no completion of signout, signinWithProvider,
\* sendPasswordResetEmail, updatePassword or updateProfile changes it.  (A
\* provider mounted again is a new instance whose `user` starts at Loading.)
C4_OnlySessionWriters ==
  [][user' # user =>
       \/ lastStep'.kind = "ProviderMount" /\ user' = Null
       \/ lastStep'.kind = "onAuthStateChange"
       \/ lastStep'.kind = "MountEffect" /\ lastStep'.resp = "cached"
       \/ lastStep'.kind \in {"signupDone", "signinDone"} /\ lastStep'.outcome = Resolved
    ]_vars

C4_Witness ==
  /\ lastStep.kind = "signoutDone" /\ lastStep.outcome = Resolved
  /\ IsUser(user)

\* C5: a signup or signin whose response has no error and a user without
\* email confirmation rejects with UnconfirmedEmail and leaves `user` as it
\* was.
C5_UnconfirmedRejects ==
  [][(lastStep'.kind \in {"signupDone", "signinDone"} /\ lastStep'.resp = "unconfirmed") =>
       (lastStep'.outcome = Rejected("UnconfirmedEmail") /\ user' = user)
    ]_vars

C5_Witness ==
  /\ lastStep.kind = "signupDone" /\ lastStep.resp = "unconfirmed"
  /\ lastStep.outcome = Rejected("UnconfirmedEmail")
  /\ user = False

\* C6 (as stated): the promise of signinWithProvider stays pending whatever
\* the provider answered.
C6_AlwaysPending ==
  lastStep.kind = "signinWithProviderDone" => lastStep.outcome = Pending

\* C6 (amended): the promise of signinWithProvider never resolves; it
\* rejects exactly when the provider's response carries an error, with that
\* error, and stays pending otherwise.
C6_NeverResolves ==
  lastStep.kind = "signinWithProviderDone" =>
    /\ lastStep.outcome.state # "resolved"
    /\ lastStep.resp = "error" => lastStep.outcome = Rejected(ProviderError)
    /\ lastStep.resp # "error" => lastStep.outcome = Pending

C6_Witness ==
  /\ lastStep.kind = "signinWithProviderDone" /\ lastStep.resp = "ok"
  /\ lastStep.outcome = Pending

\* C7: updateProfile with an email other than the session user's, once the
\* provider accepted the update, rejects with ConfirmationPending; no step
\* of updateProfile changes `user` (its email changes only when a later
\* session write carries it); with the session user's own email no provider
\* update is sent.
C7_EmailUpdatePending ==
  [][/\ (lastStep'.kind = "updateEmailDone" /\ lastStep'.resp = "ok") =>
          (lastStep'.outcome = Rejected("ConfirmationPending") /\ user' = user)
     /\ lastStep'.kind \in {"updateProfileCall", "updateEmailDone", "updateUserDone"} =>
          user' = user
     /\ (lastStep'.kind = "updateProfileCall" /\ IsUser(user)
           /\ lastStep'.email = user.email) =>
          (EmailCall \in inflight' => EmailCall \in inflight)
     /\ (lastStep'.kind = "updateProfileCall" /\ IsUser(user)
           /\ lastStep'.email # "" /\ lastStep'.email # user.email) =>
          (EmailCall \in inflight' /\ lastStep'.outcome = Pending)
    ]_vars

C7_Witness ==
  /\ lastStep.kind = "updateEmailDone" /\ lastStep.resp = "ok"
  /\ lastStep.outcome = Rejected("ConfirmationPending")
  /\ IsUser(user)

\* C8 (as stated): the gate calls history.replace only in a step that takes
\* auth.user into Anonymous (or mounts the gate on an Anonymous user), never
\* while auth.user stays Anonymous and never for Loading or Authenticated.
C8_RedirectOncePerTransition ==
  [][lastStep'.redirected =>
       (finalUser' = False /\ (finalUser # False \/ gate = "unmounted"))
    ]_vars

\* C9: a mounted gate shows the protected component exactly when auth.user
\* is a user object, and the placeholder when it is Loading or Anonymous.
C9_GateRendersOnlyAuthenticated ==
  gate # "unmounted" =>
    /\ gate = "component" <=> IsUser(finalUser)
    /\ finalUser \in {Null, False} => gate = "placeholder"

C9_Witness ==
  /\ gate = "placeholder"
  /\ IsUser(user) /\ query.status = "success" /\ query.data = NullRow

\* C10: after the subscription callback ran, `user` is the user of the
\* event's session, or Anonymous when the event has none, whatever events
\* and operations came before; so a replayed event changes nothing.
C10_LastEventDecides ==
  lastStep.kind = "onAuthStateChange" =>
    user = (IF lastStep.session = NoSession THEN False ELSE lastStep.session.user)

C10_Witness ==
  /\ lastStep.kind = "onAuthStateChange" /\ lastStep.session # NoSession
  /\ user = lastStep.session.user
  /\ IsUser(mergedUser)


\* C11: after the mount effect, `user` is still Loading when the URL hash
\* held the access-token marker (whatever the cached session was), and
\* otherwise it is the cached session's user, or Anonymous without a cached
\* session; a Loading `user` is left only by the mount effect reading the
\* cache, by the subscription callback or by a signup/signin that resolved.
C11_Initialize ==
  [][/\ (lastStep'.kind = "MountEffect" /\ lastStep'.resp = "token") =>
          (user' = Null /\ user' = user)
     /\ (lastStep'.kind = "MountEffect" /\ lastStep'.resp = "cached") =>
          user' = (IF lastStep'.session = NoSession THEN False
                   ELSE lastStep'.session.user)
     /\ (user = Null /\ user' # Null) =>
          \/ lastStep'.kind = "MountEffect" /\ lastStep'.resp = "cached"
          \/ lastStep'.kind = "onAuthStateChange"
          \/ lastStep'.kind \in {"signupDone", "signinDone"} /\ lastStep'.outcome = Resolved
    ]_vars

C11_Witness ==
  /\ lastStep.kind = "MountEffect" /\ lastStep.resp = "token"
  /\ lastStep.session # NoSession
  /\ user = Null /\ phase = "mounted"


\* C12: no step of signout writes `user`; in a mounted provider `user`
\* becomes Anonymous only in a step of the subscription callback for an
\* event without session.
C12_SignoutLeavesUser ==
  [][/\ lastStep'.kind \in {"signoutCall", "signoutDone"} => user' = user
     /\ (phase = "mounted" /\ user # False /\ user' = False) =>
          (lastStep'.kind = "onAuthStateChange" /\ lastStep'.session = NoSession)
    ]_vars

C12_Witness ==
  /\ lastStep.kind = "signoutDone" /\ lastStep.resp = "ok"
  /\ lastStep.outcome = Resolved
  /\ IsUser(user) /\ IsUser(finalUser) /\ phase = "mounted"

\* C13: with an authenticated session and a failed profile query the merge
\* throws an error carrying the query's reason, and auth.user is that
\* failure: neither Loading, nor Anonymous, nor a user object.
C13_ProfileErrorSurfaces ==
  (IsUser(user) /\ query.status = "error") =>
    /\ IsThrow(mergedUser) /\ mergedUser.message = query.error
    /\ IsThrow(finalUser)
    /\ finalUser # Null /\ finalUser # False /\ ~IsUser(finalUser)

C13_Witness ==
  /\ lastStep.kind = "ProfileResponse" /\ lastStep.resp = "applied"
  /\ IsUser(user) /\ query.status = "error"
  /\ IsThrow(finalUser) /\ phase = "crashed"

\* C14: when the provider's response carries an error, the completion of
\* signup, signin, signinWithProvider, signout, sendPasswordResetEmail,
\* updatePassword and of the email branch of updateProfile rejects with that
\* error, leaves `user` unchanged and sends no request.
C14_ProviderErrorRejects ==
  [][(lastStep'.kind \in {"signupDone", "signinDone", "signinWithProviderDone",
                          "signoutDone", "sendPasswordResetEmailDone",
                          "updatePasswordDone", "updateEmailDone"}
        /\ lastStep'.resp = "error") =>
       /\ lastStep'.outcome = Rejected(ProviderError)
       /\ user' = user
       /\ inflight' \subseteq inflight
    ]_vars

C14_Witness ==
  /\ lastStep.kind = "updateEmailDone" /\ lastStep.resp = "error"
  /\ lastStep.outcome = Rejected(ProviderError)
  /\ IsUser(user)


\* C16: the providers list of an authenticated auth.user has exactly one
\* element: "password" when the session's provider is "email", and the
\* session's provider name itself otherwise.
C16_ProviderList ==
  (IsUser(finalUser) /\ IsUser(user)) =>
    /\ Len(finalUser.providers) = 1
    /\ user.provider = "email" => finalUser.providers[1] = "password"
    /\ user.provider # "email" => finalUser.providers[1] = user.provider

C16_Witness ==
  /\ IsUser(finalUser) /\ IsUser(user)
  /\ user.provider = "email" /\ finalUser.providers = <<"password">>


\* C17: over all mounts and teardowns of the provider there is never more
\* than one subscription: exactly one while it is mounted and none before
\* the mount effect and after a teardown; and while the provider is torn
\* down no step changes `user`.
C17_ScopedSubscription ==
  [][/\ subs' <= 1
     /\ phase' = "mounted" => subs' = 1
     /\ phase' \in {"created", "unmounted", "crashed"} => subs' = 0
     /\ (phase \in {"unmounted", "crashed"} /\ phase' = phase) => user' = user
    ]_vars

C17_Witness ==
  /\ lastStep.kind = "ProviderMount"
  /\ phase = "created" /\ subs = 0 /\ user = Null


\* C18 (as stated): updateProfile sends a request only when `user` is an
\* authenticated user, and a profile-store mutation is keyed by that user's
\* id; called while `user` is Loading or Anonymous it sends nothing.
C18_UpdateOnlyWhenAuthenticated ==
  [][lastStep'.kind = "updateProfileCall" =>
       /\ ~IsUser(user) => inflight' = inflight
       /\ \A c \in inflight' \ inflight :
            c.op = "updateUser" => (IsUser(user) /\ c.key = user.id)
    ]_vars

\* C19 (as stated, for the completion that directly follows the event): a
\* signup/signin that completes right after an event without session was
\* applied (so it was in flight when the event arrived) leaves `user`
\* Anonymous.
C19_StaleCompletionIgnored ==
  [][(lastStep.kind = "onAuthStateChange" /\ lastStep.session = NoSession
        /\ user = False
        /\ lastStep'.kind \in {"signupDone", "signinDone"}) =>
       user' = False
    ]_vars

\* C19 (amended): an Anonymous `user` is left only by the subscription
\* callback for an event with a session, which sets that session's user, or
\* by a signup/signin completion that resolved, whenever it was invoked.
\* (A provider mounted again starts a new `user` at Loading.)
C19_AnonymousUntilSessionOrAuth ==
  [][(user = False /\ user' # False) =>
       \/ /\ lastStep'.kind = "onAuthStateChange"
          /\ lastStep'.session # NoSession
          /\ user' = lastStep'.session.user
       \/ /\ lastStep'.kind \in {"signupDone", "signinDone"}
          /\ lastStep'.outcome = Resolved
          /\ IsUser(user') /\ user'.email_confirmed_at
       \/ lastStep'.kind = "ProviderMount" /\ user' = Null
    ]_vars

C19_Witness ==
  /\ lastStep.kind = "signinDone" /\ lastStep.resp = "ok"
  /\ lastStep.outcome = Resolved
  /\ IsUser(user) /\ query.status = "loading" /\ gate = "placeholder"


\* C15: planIsActive of an authenticated auth.user is always present and a
\* boolean; it is true exactly when the profile row has a billing record
\* whose subscription status is "active" or "trialing", and false for every
\* other status, for a NULL status and without a billing record.
C15_PlanIsActive ==
  IsUser(finalUser) =>
    /\ "planIsActive" \in DOMAIN finalUser
    /\ finalUser.planIsActive \in BOOLEAN
    /\ finalUser.planIsActive <=>
         /\ Len(query.data.customers) > 0
         /\ query.data.customers[1].stripe_subscription_status \in {"active", "trialing"}

C15_Witness ==
  /\ IsUser(finalUser) /\ finalUser.planIsActive
  /\ query.data.customers = <<[stripe_subscription_status |-> "trialing"]>>

====
